---- MODULE Spec2Model ----
(***************************************************************************)
(* iq-slicer: the batch segmenter of file mode (detector.rs, process_file  *)
(* in slicer.rs) and the streaming detector (process_stream in slicer.rs). *)
(*                                                                         *)
(* Powers and thresholds are dB values in thousandths of a dB (integers).  *)
(* Samples are represented by their position in the input.                 *)
(***************************************************************************)
EXTENDS Integers, Sequences, FiniteSets, TLC

\* ------------------------------------------------------------------ bounds
\* longest recording of file mode, in samples
MaxSamples == 6
\* largest analysis frame length of file mode
MaxWindow == 4
\* number of chunks the stream source delivers at most
MaxChunks == 6

\* ------------------------------------------------------- numeric helpers
\* f32::NEG_INFINITY, below every finite power
NegInf == -100000000

\* f32::NAN, the result of -inf + inf and of -inf - (-inf)
NaN == 100000000

DB(x) == x * 1000

\* the f32 comparisons: every comparison with NaN is false
Gt(a, b) == a # NaN /\ b # NaN /\ a > b

Lt(a, b) == a # NaN /\ b # NaN /\ a < b

Min(a, b) == IF a < b THEN a ELSE b

Max(a, b) == IF a > b THEN a ELSE b

\* usize::saturating_sub
SatSub(a, b) == IF a > b THEN a - b ELSE 0

\* x + d in f32 where d is finite: -inf stays -inf and NaN stays NaN
AddDb(x, d) == IF x = NegInf \/ x = NaN THEN x ELSE x + d

\* ------------------------------------------------------------ input sets
\* finite powers a frame of file mode can measure: noise, the two hysteresis
\* boundaries of a -40 dB threshold, and a burst
FileLevels == {DB(-70), DB(-43), DB(-40), DB(-20)}

\* thresholds handed to detect_segments
Thresholds == {DB(-40)}

MinDurations == {0, 4}

GapChoices == {0, 1}

PaddingChoices == {0, 1, 9}

\* None is modelled as -1
MaxDurations == {-1, 4}

VARIABLES
    pc,                     \* position in process_file / process_stream
    total_samples,          \* samples.len()
    window_size,
    min_duration_samples,
    gap_samples,
    padding_samples,
    max_samples,            \* max duration in samples, -1 for None
    i,                      \* frame index of the profiler loop
    power_profile,
    analysis,               \* <<ThresholdAnalysis>> once auto_threshold ran
    threshold_db,
    idx,                    \* profile index of the hysteresis walk
    in_transmission,
    start_idx,
    segments,               \* raw segments of detect_segments
    merged,
    detected,               \* what detect_segments returns
    padded,                 \* after add_padding
    sliced,                 \* after the max-duration filter: the slices written
    chunk_size,
    threshold_margin,
    noise_floor_db,
    silence_counter,
    slice_counter,
    pre_buffer,
    tx_buffer,
    flushed,                \* the flush events emitted so far, in order
    chunk_log,              \* the chunks read so far: power, and state on arrival
    last_read,              \* outcome of the last read_exact, samples received
    scenario                \* TRUE when the source plays the scripted scenario

fileVars == <<total_samples, window_size, max_samples, i, power_profile,
              analysis, threshold_db, idx, start_idx, segments, merged, detected,
              padded, sliced>>

sharedVars == <<pc, min_duration_samples, gap_samples, padding_samples,
                in_transmission>>

streamVars == <<chunk_size, threshold_margin, noise_floor_db, silence_counter,
                slice_counter, pre_buffer, tx_buffer, flushed, chunk_log,
                last_read, scenario>>

vars == <<fileVars, sharedVars, streamVars>>

\* ------------------------------------------------------------ detector.rs
Segment(s, e) == [start_sample |-> s, end_sample |-> e]

duration_samples(s) == s.end_sample - s.start_sample

\* The range of calculate_peak_power_db on a frame of n samples: an empty
\* frame returns -inf; a frame of one sample has no bin besides DC, so the
\* fold over the skipped iterator yields 0 and log10(0) = -inf; a longer
\* frame measures a finite power, or -inf when every bin is zero.
calculate_peak_power_db(n, levels) ==
    IF n <= 1 THEN {NegInf} ELSE levels \cup {NegInf}

hop_size == window_size \div 2

num_frames_noPlusOne == SatSub(total_samples, window_size) \div hop_size

num_frames == SatSub(total_samples, window_size) \div hop_size + 1

Joins_strict(segment, current, max_gap) ==
    segment.start_sample < current.end_sample + max_gap

Joins_overlapOnly(segment, current, max_gap) ==
    segment.start_sample < current.end_sample

\* the merge test of merge_segments
Joins(segment, current, max_gap) ==
    segment.start_sample <= current.end_sample + max_gap

\* merge_segments: the scan keeps `current`, extends it or pushes it
RECURSIVE MergeScan(_, _, _, _)
MergeScan(rest, current, acc, max_gap) ==
    IF rest = <<>> THEN Append(acc, current)
    ELSE LET segment == Head(rest) IN
         IF Joins(segment, current, max_gap)
         THEN MergeScan(Tail(rest),
                        [current EXCEPT !.end_sample = segment.end_sample],
                        acc, max_gap)
         ELSE MergeScan(Tail(rest), segment, Append(acc, current), max_gap)

merge_segments(segs, max_gap) ==
    IF segs = <<>> THEN segs
    ELSE MergeScan(Tail(segs), Head(segs), <<>>, max_gap)

MinDurationFilter(segs, min_dur) ==
    LET Keep(s) == duration_samples(s) >= min_dur
    IN SelectSeq(segs, Keep)

PadSegment_noClamp(s, padding, total) ==
    [start_sample |-> SatSub(s.start_sample, padding),
     end_sample   |-> s.end_sample + padding]

PadSegment_noSaturate(s, padding, total) ==
    [start_sample |-> s.start_sample - padding,
     end_sample   |-> Min(s.end_sample + padding, total)]

PadSegment_twice(s, padding, total) ==
    [start_sample |-> SatSub(s.start_sample, 2 * padding),
     end_sample   |-> Min(s.end_sample + 2 * padding, total)]

PadSegment(s, padding, total) ==
    [start_sample |-> SatSub(s.start_sample, padding),
     end_sample   |-> Min(s.end_sample + padding, total)]

add_padding(segs, padding, total) ==
    [k \in 1..Len(segs) |-> PadSegment(segs[k], padding, total)]

\* the filter on the durations before padding, padding applied afterwards
MaxDurationFilter_beforePadding(segs, max_dur) ==
    IF max_dur = -1 THEN segs
    ELSE LET Keep(s) == duration_samples(s) <= max_dur
         IN add_padding(SelectSeq(detected, Keep), padding_samples,
                        total_samples)

MaxDurationFilter(segs, max_dur) ==
    IF max_dur = -1 THEN segs
    ELSE LET Keep(s) == duration_samples(s) <= max_dur
         IN SelectSeq(segs, Keep)

\* ---------------------------------------------------------------- file mode
InitFile ==
    /\ scenario = FALSE
    /\ pc = "profile"
    /\ total_samples \in 0..MaxSamples
    /\ window_size \in 1..MaxWindow
    /\ min_duration_samples \in MinDurations
    /\ gap_samples \in GapChoices
    /\ padding_samples \in PaddingChoices
    /\ max_samples \in MaxDurations
    /\ i = 0
    /\ power_profile = <<>>
    /\ analysis = <<>>
    /\ threshold_db = 0
    /\ idx = 0
    /\ in_transmission = FALSE
    /\ start_idx = 0
    /\ segments = <<>>
    /\ merged = <<>>
    /\ detected = <<>>
    /\ padded = <<>>
    /\ sliced = <<>>
    /\ chunk_size = 0
    /\ threshold_margin = 0
    /\ noise_floor_db = 0
    /\ silence_counter = 0
    /\ slice_counter = 0
    /\ pre_buffer = <<>>
    /\ tx_buffer = <<>>
    /\ flushed = <<>>
    /\ chunk_log = <<>>
    /\ last_read = [kind |-> "none", received |-> 0]

\* calculate_peak_power_profile, recording shorter than one frame
ProfileShort ==
    /\ pc = "profile"
    /\ total_samples < window_size
    /\ \E p \in calculate_peak_power_db(total_samples, FileLevels) :
          power_profile' = <<p>>
    /\ pc' = "threshold"
    /\ UNCHANGED <<total_samples, window_size, max_samples, analysis, i, threshold_db,
                   idx, start_idx, segments, merged, detected, padded, sliced,
                   min_duration_samples, gap_samples, padding_samples,
                   in_transmission>>
    /\ UNCHANGED streamVars

\* calculate_peak_power_profile with window_size = 1: hop_size = 0 and the
\* division computing num_frames panics
ProfilePanic ==
    /\ pc = "profile"
    /\ total_samples >= window_size
    /\ hop_size = 0
    /\ pc' = "panic"
    /\ UNCHANGED <<fileVars, min_duration_samples, gap_samples,
                   padding_samples, in_transmission>>
    /\ UNCHANGED streamVars

\* one iteration of the profiler loop
ProfileFrame ==
    /\ pc = "profile"
    /\ total_samples >= window_size
    /\ hop_size > 0
    /\ i < num_frames
    /\ LET start == i * hop_size
           end   == Min(start + window_size, total_samples)
       IN IF end - start = window_size
          THEN \E p \in calculate_peak_power_db(end - start, FileLevels) :
                  power_profile' = Append(power_profile, p)
          ELSE power_profile' = power_profile
    /\ i' = i + 1
    /\ UNCHANGED <<pc, total_samples, window_size, max_samples, analysis, threshold_db,
                   idx, start_idx, segments, merged, detected, padded, sliced,
                   min_duration_samples, gap_samples, padding_samples,
                   in_transmission>>
    /\ UNCHANGED streamVars

ProfileDone ==
    /\ pc = "profile"
    /\ total_samples >= window_size
    /\ hop_size > 0
    /\ i = num_frames
    /\ pc' = "threshold"
    /\ UNCHANGED <<fileVars, min_duration_samples, gap_samples,
                   padding_samples, in_transmission>>
    /\ UNCHANGED streamVars

\* power_profile.sort_by(partial_cmp): ascending, -inf first
RECURSIVE InsertSorted(_, _)
InsertSorted(x, sorted) ==
    IF sorted = <<>> THEN <<x>>
    ELSE IF x <= Head(sorted) THEN <<x>> \o sorted
    ELSE <<Head(sorted)>> \o InsertSorted(x, Tail(sorted))

RECURSIVE SortAscending(_)
SortAscending(profile) ==
    IF profile = <<>> THEN <<>>
    ELSE InsertSorted(Head(profile), SortAscending(Tail(profile)))

\* (len as f32 * 0.10) as usize
P10Index(len) == (len * 10) \div 100

\* (len as f32 * 0.99) as usize
P99Index(len) == (len * 99) \div 100

\* noise_floor + (p95 - noise_floor) * 0.7 in f32, p95 >= noise_floor: with
\* noise_floor = -inf the difference is +inf (or NaN when p95 = -inf too)
\* and -inf + inf is NaN
Interpolate(noise_floor, p95) ==
    IF noise_floor = NegInf
    THEN NaN
    ELSE noise_floor + ((p95 - noise_floor) * 7) \div 10

ThresholdAnalysis(t, nf, p) == [threshold |-> t, noise_floor |-> nf, p95 |-> p]

\* auto_threshold, from the profile it computes
auto_threshold(profile) ==
    IF profile = <<>>
    THEN ThresholdAnalysis(DB(-60), DB(-70), DB(-50))
    ELSE LET sorted      == SortAscending(profile)
             noise_floor == sorted[P10Index(Len(sorted)) + 1]
             p95         == sorted[Min(P99Index(Len(sorted)),
                                       Len(sorted) - 1) + 1]
         IN ThresholdAnalysis(Interpolate(noise_floor, p95), noise_floor, p95)

\* process_file: auto_threshold, then detect_segments with its threshold
AutoThreshold ==
    /\ pc = "threshold"
    /\ analysis' = <<auto_threshold(power_profile)>>
    /\ threshold_db' = analysis'[1].threshold
    /\ IF power_profile = <<>>
       THEN pc' = "detected"
       ELSE pc' = "walk"
    /\ UNCHANGED <<total_samples, window_size, max_samples, i, power_profile,
                   idx, start_idx, segments, merged, detected, padded, sliced,
                   min_duration_samples, gap_samples, padding_samples,
                   in_transmission>>
    /\ UNCHANGED streamVars

\* the threshold argument of detect_segments, and its entry check
EnterDetect ==
    /\ pc = "threshold"
    /\ \E t \in Thresholds : threshold_db' = t
    /\ IF power_profile = <<>>
       THEN pc' = "detected"
       ELSE pc' = "walk"
    /\ UNCHANGED <<total_samples, window_size, max_samples, analysis, i, power_profile,
                   idx, start_idx, segments, merged, detected, padded, sliced,
                   min_duration_samples, gap_samples, padding_samples,
                   in_transmission>>
    /\ UNCHANGED streamVars

threshold_on == threshold_db

\* detector.rs:153, f32 subtraction
threshold_off == AddDb(threshold_db, -DB(3))

ClosedSegment_noOverlap(s_idx, e_idx) ==
    Segment(s_idx * window_size, e_idx * window_size + window_size)

ClosedSegment_noFrame(s_idx, e_idx) ==
    Segment(s_idx * hop_size, e_idx * hop_size)

ClosedSegment(s_idx, e_idx) ==
    Segment(s_idx * hop_size, e_idx * hop_size + window_size)

EntersTransmission(in_tx, power, on) == ~in_tx /\ Gt(power, on)

LeavesTransmission_orEqual(in_tx, power, off) == in_tx /\ power <= off

LeavesTransmission(in_tx, power, off) == in_tx /\ Lt(power, off)

\* one iteration of the hysteresis walk
WalkFrame ==
    /\ pc = "walk"
    /\ idx < Len(power_profile)
    /\ LET power == power_profile[idx + 1] IN
       IF EntersTransmission(in_transmission, power, threshold_on)
       THEN /\ in_transmission' = TRUE
            /\ start_idx' = idx
            /\ segments' = segments
       ELSE IF LeavesTransmission(in_transmission, power, threshold_off)
       THEN /\ in_transmission' = FALSE
            /\ segments' = Append(segments, ClosedSegment(start_idx, idx))
            /\ start_idx' = start_idx
       ELSE UNCHANGED <<in_transmission, start_idx, segments>>
    /\ idx' = idx + 1
    /\ UNCHANGED <<pc, total_samples, window_size, max_samples, analysis, i,
                   power_profile, threshold_db, merged, detected, padded,
                   sliced, min_duration_samples, gap_samples, padding_samples>>
    /\ UNCHANGED streamVars

\* the transmission that extends to the end of the recording
WalkTail ==
    /\ pc = "walk"
    /\ idx = Len(power_profile)
    /\ segments' = IF in_transmission
                   THEN Append(segments,
                               Segment(start_idx * hop_size, total_samples))
                   ELSE segments
    /\ pc' = "merge"
    /\ UNCHANGED <<total_samples, window_size, max_samples, analysis, i, power_profile,
                   threshold_db, idx, start_idx, merged, detected, padded,
                   sliced, min_duration_samples, gap_samples, padding_samples,
                   in_transmission>>
    /\ UNCHANGED streamVars

\* the duration filter applied to the raw segments, before the merge
Merge_filterFirst ==
    /\ pc = "merge"
    /\ merged' = merge_segments(
                     MinDurationFilter(segments, min_duration_samples),
                     gap_samples)
    /\ pc' = "filter"
    /\ UNCHANGED <<total_samples, window_size, max_samples, analysis, i,
                   power_profile, threshold_db, idx, start_idx, segments,
                   detected, padded, sliced, min_duration_samples,
                   gap_samples, padding_samples, in_transmission>>
    /\ UNCHANGED streamVars

Merge ==
    /\ pc = "merge"
    /\ merged' = merge_segments(segments, gap_samples)
    /\ pc' = "filter"
    /\ UNCHANGED <<total_samples, window_size, max_samples, analysis, i, power_profile,
                   threshold_db, idx, start_idx, segments, detected, padded,
                   sliced, min_duration_samples, gap_samples, padding_samples,
                   in_transmission>>
    /\ UNCHANGED streamVars

\* the duration filter; detect_segments returns
FilterShort ==
    /\ pc = "filter"
    /\ detected' = MinDurationFilter(merged, min_duration_samples)
    /\ pc' = "detected"
    /\ UNCHANGED <<total_samples, window_size, max_samples, analysis, i, power_profile,
                   threshold_db, idx, start_idx, segments, merged, padded,
                   sliced, min_duration_samples, gap_samples, padding_samples,
                   in_transmission>>
    /\ UNCHANGED streamVars

\* process_file: add_padding
Pad ==
    /\ pc = "detected"
    /\ padded' = add_padding(detected, padding_samples, total_samples)
    /\ pc' = "padded"
    /\ UNCHANGED <<total_samples, window_size, max_samples, analysis, i, power_profile,
                   threshold_db, idx, start_idx, segments, merged, detected,
                   sliced, min_duration_samples, gap_samples, padding_samples,
                   in_transmission>>
    /\ UNCHANGED streamVars

\* process_file: the max-duration filter
FilterLong ==
    /\ pc = "padded"
    /\ sliced' = MaxDurationFilter(padded, max_samples)
    /\ pc' = "sliced"
    /\ UNCHANGED <<total_samples, window_size, max_samples, analysis, i, power_profile,
                   threshold_db, idx, start_idx, segments, merged, detected,
                   padded, min_duration_samples, gap_samples, padding_samples,
                   in_transmission>>
    /\ UNCHANGED streamVars

NextFile ==
    \/ ProfileShort
    \/ ProfilePanic
    \/ ProfileFrame
    \/ ProfileDone
    \/ AutoThreshold
    \/ EnterDetect
    \/ WalkFrame
    \/ WalkTail
    \/ Merge
    \/ FilterShort
    \/ Pad
    \/ FilterLong

SpecFile == InitFile /\ [][NextFile]_vars

\* ------------------------------------------------------ file mode: claims
\* a step of the hysteresis walk over one frame of the profile
IsWalkStep == pc = "walk" /\ idx' = idx + 1

\* C1: in the hysteresis walk of detect_segments, with the exit threshold 3 dB
\* under the entry threshold, the flag goes from out to in exactly on a frame
\* whose power is strictly above the entry threshold, from in to out exactly
\* on a frame whose power is strictly below the exit threshold, every other
\* frame (any power between the two thresholds included) leaves it as it
\* was, and a raw segment is closed exactly on an in-to-out transition.
C1_HysteresisWalk ==
    [][IsWalkStep =>
        LET power == power_profile[idx + 1]
            on    == threshold_db
            off   == threshold_db - 3000
        IN /\ (~in_transmission /\ in_transmission')
                 <=> (~in_transmission /\ power > on)
           /\ (in_transmission /\ ~in_transmission')
                 <=> (in_transmission /\ power < off)
           /\ (off <= power /\ power <= on)
                 => in_transmission' = in_transmission
           /\ IF in_transmission /\ ~in_transmission'
              THEN Len(segments') = Len(segments) + 1
              ELSE segments' = segments]_vars

\* a frame at the entry threshold did not open, a frame at the exit threshold
\* did not close, and the noise frame after it closed the one segment
C1_Witness ==
    /\ pc = "walk"
    /\ idx = 4
    /\ power_profile[1] = DB(-40)
    /\ power_profile[2] = DB(-20)
    /\ power_profile[3] = DB(-43)
    /\ power_profile[4] = DB(-70)
    /\ ~in_transmission
    /\ Len(segments) = 1
    /\ segments[1].start_sample = hop_size

AfterDetect == pc \in {"detected", "padded", "sliced"}

\* C2: every segment detect_segments returns has start < end, and the list
\* is sorted by start with consecutive segments at least the merge gap apart.
C2_DetectedWellFormed ==
    AfterDetect =>
        /\ \A k \in 1..Len(detected) :
              detected[k].start_sample < detected[k].end_sample
        /\ \A k \in 1..(Len(detected) - 1) :
              /\ detected[k].start_sample <= detected[k + 1].start_sample
              /\ detected[k].end_sample <= detected[k + 1].start_sample
              /\ detected[k + 1].start_sample - detected[k].end_sample
                    >= gap_samples

C2_Witness ==
    /\ pc = "detected"
    /\ Len(detected) = 2
    /\ gap_samples = 0

AfterMerge == pc \in {"filter", "detected", "padded", "sliced"}

\* the places of the raw list after which the gap exceeds the merge gap
Breaks ==
    {k \in 1..(Len(segments) - 1) :
        segments[k + 1].start_sample - segments[k].end_sample > gap_samples}

AfterPadding == pc \in {"padded", "sliced"}

\* C4: add_padding keeps the number and order of the segments, moves every
\* start to max(start - padding, 0) and every end to
\* min(end + padding, total_samples), so no start is below 0 and no end is
\* above total_samples.
C4_PaddingClamped ==
    AfterPadding =>
        /\ Len(padded) = Len(detected)
        /\ \A k \in 1..Len(padded) :
              /\ padded[k].start_sample
                    = Max(detected[k].start_sample - padding_samples, 0)
              /\ padded[k].end_sample
                    = Min(detected[k].end_sample + padding_samples,
                          total_samples)
              /\ padded[k].start_sample >= 0
              /\ padded[k].end_sample <= total_samples

\* a segment strictly inside the recording, padded by more than the recording
C4_Witness ==
    /\ pc = "padded"
    /\ Len(detected) = 1
    /\ detected[1].start_sample > 0
    /\ detected[1].end_sample < total_samples
    /\ padding_samples > total_samples
    /\ padded = <<Segment(0, total_samples)>>

\* the profile is noise, then k burst frames, then noise, with a noise frames
\* before the burst
IsBurstProfile(a, k) ==
    /\ a >= 1
    /\ k >= 1
    /\ a + k < Len(power_profile)
    /\ \A n \in 1..Len(power_profile) :
          power_profile[n] = IF n > a /\ n <= a + k THEN DB(-20) ELSE DB(-70)

Abs(x) == IF x < 0 THEN -x ELSE x

\* C5: on a profile of -70 dB noise with one run of K frames at -20 dB and
\* noise on both sides, with threshold_on = -40 dB, detect_segments finds one
\* segment whose duration is within one frame length of K*hop; it returns
\* that segment when the duration is >= min_duration and nothing otherwise.
C5_BurstRoundTrip ==
    (AfterDetect /\ threshold_db = DB(-40)) =>
        \A a \in 1..Len(power_profile) : \A k \in 1..Len(power_profile) :
            IsBurstProfile(a, k) =>
                /\ Len(merged) = 1
                /\ Abs(duration_samples(merged[1]) - k * hop_size)
                      <= window_size
                /\ detected =
                      IF duration_samples(merged[1]) >= min_duration_samples
                      THEN merged
                      ELSE <<>>

\* a burst of two frames between noise frames, returned as one segment
C5_Witness ==
    /\ pc = "detected"
    /\ threshold_db = DB(-40)
    /\ IsBurstProfile(1, 2)
    /\ min_duration_samples = 4
    /\ Len(detected) = 1

\* the profiler has returned
ProfileComputed == pc \notin {"profile", "panic"}

\* C13: the profile of L samples with frame length N has exactly one element
\* when L < N (L = 0 included) and floor((L - N) / hop) + 1 elements with
\* hop = N / 2 when L >= N; every iteration of the profiler loop pushes its
\* frame, and the profile is never empty.
C13_ProfileLength ==
    /\ (pc = "profile" /\ total_samples >= window_size
           /\ window_size \div 2 >= 1)
          => Len(power_profile) = i
    /\ ProfileComputed =>
          /\ power_profile # <<>>
          /\ Len(power_profile) =
                IF total_samples < window_size
                THEN 1
                ELSE (total_samples - window_size) \div (window_size \div 2)
                        + 1

\* six samples in frames of three, hop 1: four frames
C13_Witness ==
    /\ pc = "threshold"
    /\ total_samples = 6
    /\ window_size = 3
    /\ Len(power_profile) = 4

IsConstantProfile ==
    /\ power_profile # <<>>
    /\ \A k \in 1..Len(power_profile) : power_profile[k] = power_profile[1]

\* C14: auto_threshold returns (threshold -60, noise floor -70, p95 -50) for
\* an empty profile; for a profile of identical values v it returns
\* noise_floor = p95 = threshold = v; in general the noise floor is the
\* sorted value at index floor(L * 0.10) and the upper reference the sorted
\* value at index min(floor(L * 0.99), L - 1).
C14_AutoThreshold ==
    analysis # <<>> =>
        LET a == analysis[1]
            L == Len(power_profile)
            sorted == SortAscending(power_profile)
        IN /\ L = 0 => a = [threshold |-> DB(-60), noise_floor |-> DB(-70),
                            p95 |-> DB(-50)]
           /\ IsConstantProfile =>
                 /\ a.noise_floor = power_profile[1]
                 /\ a.p95 = power_profile[1]
                 /\ a.threshold = power_profile[1]
           /\ L >= 1 =>
                 /\ a.noise_floor = sorted[(L * 10) \div 100 + 1]
                 /\ a.p95 = sorted[Min((L * 99) \div 100, L - 1) + 1]

\* C15: with an empty sample buffer auto_threshold yields the fallback
\* values (threshold -60 dB, noise floor -70 dB, p95 -50 dB) and
\* detect_segments returns no segment.
C15_EmptyInputFallback ==
    (analysis # <<>> /\ total_samples = 0) =>
        /\ analysis[1] = [threshold |-> DB(-60), noise_floor |-> DB(-70),
                          p95 |-> DB(-50)]
        /\ pc \in {"detected", "padded", "sliced"} => detected = <<>>

\* the length of the window the profiler generates
blackman_window_size ==
    IF total_samples < window_size THEN total_samples ELSE window_size

\* C16: every window file mode generates has length >= 2, and the hop N / 2
\* is >= 1, for every sample rate and every recording length.
C16_FrameLengthInvariant ==
    pc # "profile" =>
        /\ blackman_window_size >= 2
        /\ window_size \div 2 >= 1

\* C18: a raw segment opened at profile index s and closed at index e runs
\* from s * hop to e * hop + N; a transmission still open when the profile
\* ends gives exactly one more raw segment, from s * hop to the number of
\* samples.
C18_SegmentCoordinates ==
    [][/\ IsWalkStep =>
            /\ (~in_transmission /\ in_transmission') => start_idx' = idx
            /\ (in_transmission /\ in_transmission')
                  => start_idx' = start_idx
            /\ (in_transmission /\ ~in_transmission') =>
                  segments' = Append(segments,
                     [start_sample |-> start_idx * (window_size \div 2),
                      end_sample   |-> idx * (window_size \div 2)
                                          + window_size])
       /\ (pc = "walk" /\ pc' = "merge") =>
            segments' =
               IF in_transmission
               THEN Append(segments,
                      [start_sample |-> start_idx * (window_size \div 2),
                       end_sample   |-> total_samples])
               ELSE segments
      ]_vars

\* frames of two samples: a segment opened at 0 and closed at 1, and a
\* transmission opened at 4 and still open at the end of six samples
C18_Witness ==
    /\ pc = "merge"
    /\ window_size = 2
    /\ total_samples = 6
    /\ in_transmission
    /\ start_idx = 4
    /\ segments = <<Segment(0, 3), Segment(4, 6)>>

\* raw segments a..b form one group of the merge
IsGroup(a, b) ==
    /\ a <= b
    /\ a = 1 \/ (a - 1) \in Breaks
    /\ b = Len(segments) \/ b \in Breaks
    /\ \A k \in a..(b - 1) : k \notin Breaks

GroupSegment(a, b) ==
    Segment(segments[a].start_sample, segments[b].end_sample)

IsIn(s, segs) == \E k \in 1..Len(segs) : segs[k] = s

\* C19: the minimum-duration filter sees merged segments, never raw ones: a
\* group of raw segments joined by the merge is returned exactly when the
\* duration of the merged segment is >= min_duration, whatever the
\* durations of the raw segments in it.
C19_MergeBeforeFilter ==
    AfterDetect =>
        /\ \A a \in 1..Len(segments) : \A b \in a..Len(segments) :
              IsGroup(a, b) =>
                 (IsIn(GroupSegment(a, b), detected)
                     <=> duration_samples(GroupSegment(a, b))
                            >= min_duration_samples)
        /\ \A d \in 1..Len(detected) :
              /\ IsIn(detected[d], merged)
              /\ \E a \in 1..Len(segments) : \E b \in a..Len(segments) :
                    IsGroup(a, b) /\ detected[d] = GroupSegment(a, b)
        /\ \A m \in 1..Len(merged) :
              IsIn(merged[m], detected)
                 <=> duration_samples(merged[m]) >= min_duration_samples

\* two raw segments, each shorter than the minimum, merged and returned
C19_Witness ==
    /\ pc = "detected"
    /\ min_duration_samples = 4
    /\ Len(segments) = 2
    /\ duration_samples(segments[1]) < 4
    /\ duration_samples(segments[2]) < 4
    /\ detected = <<Segment(segments[1].start_sample,
                            segments[2].end_sample)>>

\* the padded segments the max-duration filter keeps
KeptPadded ==
    {k \in 1..Len(padded) :
        max_samples = -1 \/ duration_samples(padded[k]) <= max_samples}

\* C20: file mode pads once, after segmentation, merge and the
\* minimum-duration filter and before the maximum-duration filter: the
\* minimum is tested on unpadded merged durations, the maximum (when
\* configured) on padded, clamped durations, and a segment is written
\* exactly when its padded duration is <= the maximum.
C20_PipelineOrder ==
    pc = "sliced" =>
        /\ \A m \in 1..Len(merged) :
              IsIn(merged[m], detected)
                 <=> merged[m].end_sample - merged[m].start_sample
                        >= min_duration_samples
        /\ Len(padded) = Len(detected)
        /\ \A k \in 1..Len(padded) :
              padded[k] =
                 [start_sample |->
                     Max(detected[k].start_sample - padding_samples, 0),
                  end_sample |->
                     Min(detected[k].end_sample + padding_samples,
                         total_samples)]
        /\ Len(sliced) = Cardinality(KeptPadded)
        /\ \A j \in 1..Len(sliced) :
              \E k \in KeptPadded :
                 /\ Cardinality({x \in KeptPadded : x < k}) = j - 1
                 /\ sliced[j] = padded[k]

\* a segment as long as the minimum and not longer than the maximum, whose
\* padding makes it longer than the maximum: detected, padded, not written
C20_Witness ==
    /\ pc = "sliced"
    /\ min_duration_samples = 4
    /\ max_samples = 4
    /\ padding_samples = 1
    /\ Len(detected) = 1
    /\ duration_samples(detected[1]) = 4
    /\ duration_samples(padded[1]) > 4
    /\ sliced = <<>>

\* samples[start..end] is a valid, non-empty slice of the sample buffer
ValidSlice(s) ==
    /\ 0 <= s.start_sample
    /\ s.start_sample < s.end_sample
    /\ s.end_sample <= total_samples

\* C23: with a frame length N >= 2, for every recording length, threshold,
\* minimum duration, gap and padding, process_file reaches its slicing loop
\* and every segment it slices the sample buffer with (detected, padded and
\* passed by the max-duration filter) satisfies 0 <= start < end <= L.
C23_InBoundsSlicing ==
    window_size >= 2 =>
        /\ pc # "panic"
        /\ \A k \in 1..Len(padded) : ValidSlice(padded[k])
        /\ \A k \in 1..Len(sliced) : ValidSlice(sliced[k])

\* a segment inside the recording padded past both ends and sliced as the
\* whole recording
C23_Witness ==
    /\ pc = "sliced"
    /\ window_size = 2
    /\ total_samples = 6
    /\ padding_samples = 9
    /\ detected = <<Segment(1, 5)>>
    /\ sliced = <<Segment(0, 6)>>

StreamLevels == {DB(-70), -62800, DB(-60), DB(-20)}

ChunkSizes == {1, 2}

StreamGaps == {0, 3}

StreamPaddings == {0, 1, 3}

StreamMinDurations == {0, 5}

Margins == {0, DB(15)}

\* slicer.rs:168
InitialNoiseFloor == DB(-60)

\* slicer.rs:202 with noise_alpha = 0.005, in fixed point; -inf absorbs
UpdateNoiseFloor(nf, power) ==
    IF nf = NegInf \/ power = NegInf
    THEN NegInf
    ELSE (nf * 995 + power * 5) \div 1000

NoiseFloorAfter_always(in_tx, nf, power) == UpdateNoiseFloor(nf, power)

\* slicer.rs:200-203: the estimate moves only when not in transmission
NoiseFloorAfter(in_tx, nf, power) ==
    IF ~in_tx THEN UpdateNoiseFloor(nf, power) ELSE nf

StreamThreshold(nf, margin) == AddDb(nf, margin)

StreamThresholdOff(threshold) == AddDb(threshold, -DB(3))

RingPush_noDrain(pre, chunk, padding) == pre \o chunk

\* pre_buffer.extend(chunk) and the drain of the oldest samples
RingPush(pre, chunk, padding) ==
    LET all == pre \o chunk IN
    IF Len(all) > padding
    THEN SubSeq(all, Len(all) - padding + 1, Len(all))
    ELSE all

StartsTransmission_orEqual(power, threshold) == power >= threshold

StartsTransmission(power, threshold) == power > threshold

IsSilent(power, off) == power < off

SilenceAfter_noReset(counter, power, off, n) ==
    IF IsSilent(power, off) THEN counter + n ELSE counter

SilenceAfter(counter, power, off, n) ==
    IF IsSilent(power, off) THEN counter + n ELSE 0

GapReached(counter, gap) == counter >= gap

CloseKeeps_ignorePadding(len, padding, min_dur) == len >= min_dur

\* the minimum-duration check of a closing transmission (excluding padding)
CloseKeeps(len, padding, min_dur) == SatSub(len, padding) >= min_dur

FinalKeeps_lessPadding(in_tx, len, min_dur) ==
    in_tx /\ SatSub(len, padding_samples) >= min_dur

\* the minimum-duration check of the transmission open at end-of-stream
FinalKeeps(in_tx, len, min_dur) == in_tx /\ len >= min_dur

\* how self.reader.read_exact can end
ReadOutcomes == {"Ok", "UnexpectedEof", "ConnectionReset"}

read_chunk_eofIsErr(outcome) ==
    IF outcome = "Ok" THEN "Some" ELSE "Err"

\* read_chunk: a full buffer is Some(samples), a read that ends before the
\* buffer is full is Ok(None), any other error is returned
read_chunk(outcome) ==
    IF outcome = "Ok" THEN "Some"
    ELSE IF outcome = "UnexpectedEof" THEN "None"
    ELSE "Err"

\* the power the scenario's n-th chunk measures: 50 chunks of noise, a burst
\* of 20 chunks, 30 chunks of noise
ScenarioPower(n) ==
    IF n <= 50 THEN DB(-70)
    ELSE IF n <= 70 THEN DB(-20)
    ELSE DB(-70)

\* the chunks the source delivers at most
ChunkLimit == IF scenario THEN 100 ELSE MaxChunks

\* the powers the next chunk can measure
ArrivingPowers ==
    IF scenario
    THEN {ScenarioPower(Len(chunk_log) + 1)}
    ELSE calculate_peak_power_db(chunk_size, StreamLevels)

TriggerSilence_keep(counter) == counter

\* silence_counter at the start of a transmission
TriggerSilence(counter) == 0

TriggerBuffer_noPreRoll(pre, chunk) == chunk

\* tx_buffer at the start of a transmission: the pre-roll, then the chunk
TriggerBuffer(pre, chunk) == pre \o chunk

\* the samples read so far; the next chunk holds the chunk_size samples after
samples_read == Len(chunk_log) * chunk_size

NextChunk == [k \in 1..chunk_size |-> samples_read + k]

StreamStart ==
    /\ pc = "loop"
    /\ chunk_size \in ChunkSizes
    /\ min_duration_samples \in StreamMinDurations
    /\ gap_samples \in StreamGaps
    /\ padding_samples \in StreamPaddings
    /\ threshold_margin \in Margins
    /\ pre_buffer = <<>>
    /\ tx_buffer = <<>>
    /\ noise_floor_db = InitialNoiseFloor
    /\ in_transmission = FALSE
    /\ silence_counter = 0
    /\ slice_counter = 0
    /\ flushed = <<>>
    /\ chunk_log = <<>>
    /\ last_read = [kind |-> "none", received |-> 0]
    /\ total_samples = 0
    /\ window_size = 0
    /\ max_samples = -1
    /\ i = 0
    /\ power_profile = <<>>
    /\ analysis = <<>>
    /\ threshold_db = 0
    /\ idx = 0
    /\ start_idx = 0
    /\ segments = <<>>
    /\ merged = <<>>
    /\ detected = <<>>
    /\ padded = <<>>
    /\ sliced = <<>>

\* process_stream on a source that may deliver any chunk and end at any time
InitStream ==
    /\ StreamStart
    /\ scenario = FALSE

\* process_stream on the source of the streaming scenario, margin 15 dB
InitScenario ==
    /\ StreamStart
    /\ scenario = TRUE
    /\ threshold_margin = DB(15)

\* one loop iteration on a chunk that arrives while not in transmission
ChunkIdle ==
    /\ pc = "loop"
    /\ ~in_transmission
    /\ Len(chunk_log) < ChunkLimit
    /\ \E outcome \in ReadOutcomes :
          /\ read_chunk(outcome) = "Some"
          /\ last_read' = [kind |-> outcome, received |-> chunk_size]
    /\ \E power_db \in ArrivingPowers :
        LET chunk     == NextChunk
            nf        == NoiseFloorAfter(in_transmission, noise_floor_db,
                                         power_db)
            threshold == StreamThreshold(nf, threshold_margin)
            pre       == RingPush(pre_buffer, chunk, padding_samples)
        IN /\ noise_floor_db' = nf
           /\ pre_buffer' = pre
           /\ chunk_log' = Append(chunk_log,
                                  [power |-> power_db, active |-> FALSE])
           /\ IF StartsTransmission(power_db, threshold)
              THEN /\ in_transmission' = TRUE
                   /\ silence_counter' = TriggerSilence(silence_counter)
                   /\ tx_buffer' = TriggerBuffer(pre, chunk)
              ELSE UNCHANGED <<in_transmission, silence_counter, tx_buffer>>
    /\ UNCHANGED <<pc, chunk_size, threshold_margin, slice_counter, flushed,
                   min_duration_samples, gap_samples, padding_samples,
                   scenario>>
    /\ UNCHANGED fileVars

\* one loop iteration on a chunk that arrives while in transmission
ChunkActive ==
    /\ pc = "loop"
    /\ in_transmission
    /\ Len(chunk_log) < ChunkLimit
    /\ \E outcome \in ReadOutcomes :
          /\ read_chunk(outcome) = "Some"
          /\ last_read' = [kind |-> outcome, received |-> chunk_size]
    /\ \E power_db \in ArrivingPowers :
        LET chunk         == NextChunk
            nf            == NoiseFloorAfter(in_transmission, noise_floor_db,
                                             power_db)
            threshold     == StreamThreshold(nf, threshold_margin)
            t_off         == StreamThresholdOff(threshold)
            buffer        == tx_buffer \o chunk
            silence       == SilenceAfter(silence_counter, power_db,
                                          t_off, chunk_size)
        IN /\ noise_floor_db' = nf
           /\ chunk_log' = Append(chunk_log,
                                  [power |-> power_db, active |-> TRUE])
           /\ silence_counter' = silence
           /\ IF IsSilent(power_db, t_off)
                 /\ GapReached(silence, gap_samples)
              THEN /\ in_transmission' = FALSE
                   /\ IF CloseKeeps(Len(buffer), padding_samples,
                                    min_duration_samples)
                      THEN /\ slice_counter' = slice_counter + 1
                           /\ flushed' = Append(flushed,
                                  [buffer |-> buffer, final |-> FALSE])
                      ELSE UNCHANGED <<slice_counter, flushed>>
                   /\ tx_buffer' = <<>>
              ELSE /\ tx_buffer' = buffer
                   /\ UNCHANGED <<in_transmission, slice_counter, flushed>>
    /\ UNCHANGED <<pc, chunk_size, threshold_margin, pre_buffer,
                   min_duration_samples, gap_samples, padding_samples,
                   scenario>>
    /\ UNCHANGED fileVars

\* read_chunk returns None: leave the loop and handle the open transmission
StreamClosed ==
    /\ pc = "loop"
    /\ \E outcome \in ReadOutcomes : \E n \in 0..(chunk_size - 1) :
          /\ read_chunk(outcome) = "None"
          /\ last_read' = [kind |-> outcome, received |-> n]
    /\ IF FinalKeeps(in_transmission, Len(tx_buffer), min_duration_samples)
       THEN /\ slice_counter' = slice_counter + 1
            /\ flushed' = Append(flushed,
                                 [buffer |-> tx_buffer, final |-> TRUE])
       ELSE UNCHANGED <<slice_counter, flushed>>
    /\ pc' = "done"
    /\ UNCHANGED <<chunk_size, threshold_margin, noise_floor_db,
                   silence_counter, pre_buffer, tx_buffer, chunk_log,
                   min_duration_samples, gap_samples, padding_samples,
                   in_transmission, scenario>>
    /\ UNCHANGED fileVars

\* read_chunk returns an error: process_stream returns it at once
ReadError ==
    /\ pc = "loop"
    /\ \E outcome \in ReadOutcomes : \E n \in 0..(chunk_size - 1) :
          /\ read_chunk(outcome) = "Err"
          /\ last_read' = [kind |-> outcome, received |-> n]
    /\ pc' = "error"
    /\ UNCHANGED <<min_duration_samples, gap_samples, padding_samples,
                   in_transmission>>
    /\ UNCHANGED <<chunk_size, threshold_margin, noise_floor_db,
                   silence_counter, slice_counter, pre_buffer, tx_buffer,
                   flushed, chunk_log, scenario>>
    /\ UNCHANGED fileVars

NextStream ==
    \/ ChunkIdle
    \/ ChunkActive
    \/ StreamClosed
    \/ ReadError

SpecStream == InitStream /\ [][NextStream]_vars

\* the scenario source delivers its chunks and stays open
NextScenario ==
    \/ ChunkIdle
    \/ ChunkActive

SpecScenario == InitScenario /\ [][NextScenario]_vars

\* ---------------------------------------------------- stream mode: claims
\* a loop iteration that read and processed one chunk
IsChunkStep == pc = "loop" /\ Len(chunk_log') = Len(chunk_log) + 1

\* the power of the chunk a chunk step processed
ArrivedPower == chunk_log'[Len(chunk_log')].power

\* the exponential moving average with alpha = 0.005
Ema(nf, power) ==
    IF nf = NegInf \/ power = NegInf
    THEN NegInf
    ELSE (nf * 995 + power * 5) \div 1000

\* x + d for a dB value x that may be -inf
Plus(x, d) == IF x = NegInf THEN NegInf ELSE x + d

\* C6: the streaming detector starts in Idle; a chunk processed in Idle
\* first moves the noise floor by the EMA with the chunk's power, the
\* thresholds follow from the moved floor (threshold_on = floor + margin),
\* and the detector goes to Active on that chunk exactly when the chunk's
\* power is strictly above threshold_on.
C6_IdleEntryRule ==
    /\ ~in_transmission
    /\ [][(IsChunkStep /\ ~in_transmission) =>
            /\ noise_floor_db' = Ema(noise_floor_db, ArrivedPower)
            /\ in_transmission'
                  <=> ArrivedPower > Plus(noise_floor_db', threshold_margin)
         ]_vars

\* a chunk exactly at threshold_on left the detector Idle, the burst after it
\* made it Active
C6_Witness ==
    /\ pc = "loop"
    /\ threshold_margin = 0
    /\ Len(chunk_log) = 2
    /\ chunk_log[1].power = DB(-60)
    /\ ~chunk_log[2].active
    /\ chunk_log[2].power = DB(-20)
    /\ in_transmission
    /\ noise_floor_db = -59800

\* C7: a chunk processed while Active leaves the noise floor as it was, so
\* the thresholds are constant during the Active phase; the floor changes
\* only on a chunk processed in Idle, to floor*(1 - alpha) + power*alpha.
C7_NoiseFloorFreeze ==
    [][/\ in_transmission => noise_floor_db' = noise_floor_db
       /\ noise_floor_db' # noise_floor_db =>
             /\ IsChunkStep
             /\ ~in_transmission
             /\ noise_floor_db' = Ema(noise_floor_db, ArrivedPower)
      ]_vars

\* three chunks were processed in Active after the triggering burst, and the
\* floor is still the one the triggering chunk left
C7_Witness ==
    /\ pc = "loop"
    /\ Len(chunk_log) = 4
    /\ ~chunk_log[1].active
    /\ chunk_log[1].power = DB(-20)
    /\ chunk_log[2].active /\ chunk_log[2].power = DB(-20)
    /\ chunk_log[3].active /\ chunk_log[3].power = DB(-70)
    /\ chunk_log[4].active /\ chunk_log[4].power = DB(-20)
    /\ in_transmission
    /\ noise_floor_db = -59800

\* the number of chunks at the end of the log that arrived in Active with a
\* power strictly below off
RECURSIVE SilentRun(_, _)
SilentRun(log, off) ==
    IF log = <<>> THEN 0
    ELSE LET last == log[Len(log)] IN
         IF last.active /\ last.power < off
         THEN 1 + SilentRun(SubSeq(log, 1, Len(log) - 1), off)
         ELSE 0

\* the exit threshold of the state: floor + margin - 3 dB
ExitThreshold == Plus(Plus(noise_floor_db, threshold_margin), -3000)

\* C8: while Active, a chunk with power strictly below threshold_off adds its
\* sample count to the silence counter and any other chunk resets the
\* counter to 0; the transmission closes on a chunk exactly when the chunk
\* is below threshold_off and it and the below-threshold chunks right before
\* it total at least gap_samples.
C8_SilenceCounter ==
    [][(IsChunkStep /\ in_transmission) =>
        LET run == SilentRun(chunk_log, ExitThreshold) IN
        /\ silence_counter = run * chunk_size
        /\ silence_counter' =
              IF ArrivedPower < ExitThreshold
              THEN silence_counter + chunk_size
              ELSE 0
        /\ ~in_transmission'
              <=> /\ ArrivedPower < ExitThreshold
                  /\ (run + 1) * chunk_size >= gap_samples
      ]_vars

\* a dip of one chunk, a chunk of signal, then two silent chunks: the dip and
\* the first silent chunk together exceed the gap, but the transmission
\* closed only on the second silent chunk
C8_Witness ==
    /\ pc = "loop"
    /\ chunk_size = 2
    /\ gap_samples = 3
    /\ threshold_margin = DB(15)
    /\ Len(chunk_log) = 5
    /\ ~chunk_log[1].active /\ chunk_log[1].power = DB(-20)
    /\ chunk_log[2].active /\ chunk_log[2].power = DB(-70)
    /\ chunk_log[3].active /\ chunk_log[3].power = DB(-20)
    /\ chunk_log[4].active /\ chunk_log[4].power = DB(-70)
    /\ chunk_log[5].active /\ chunk_log[5].power = DB(-70)
    /\ ~in_transmission

\* C9: when a transmission closes, the accumulated buffer is emitted as one
\* flush event exactly when its length minus the padding budget (not below
\* 0) is >= min_duration_samples; emitted or not, the accumulator is emptied
\* and the state is Idle, so the accumulator is empty in every Idle state.
C9_CloseRule ==
    /\ [](~in_transmission => tx_buffer = <<>>)
    /\ [][(IsChunkStep /\ in_transmission /\ ~in_transmission') =>
            LET buffer == tx_buffer \o NextChunk
                actual == Max(Len(buffer) - padding_samples, 0)
            IN /\ flushed' =
                     IF actual >= min_duration_samples
                     THEN Append(flushed,
                                 [buffer |-> buffer, final |-> FALSE])
                     ELSE flushed
               /\ tx_buffer' = <<>>
         ]_vars

\* one transmission was closed and emitted, a second one was closed and
\* dropped because only its length with the padding reaches the minimum
C9_Witness ==
    /\ pc = "loop"
    /\ min_duration_samples = 5
    /\ padding_samples = 3
    /\ Len(chunk_log) = 6
    /\ chunk_log[4].active
    /\ ~chunk_log[5].active
    /\ chunk_log[6].active
    /\ ~in_transmission
    /\ Len(flushed) = 1
    /\ tx_buffer = <<>>

\* C10: at end-of-stream, the accumulator is emitted as a final flush event
\* exactly when the detector is Active and the accumulator's length, with
\* no padding subtracted, is >= min_duration_samples; in Idle nothing is
\* emitted.
C10_FinalFlush ==
    [][(pc = "loop" /\ pc' = "done") =>
        flushed' =
           IF in_transmission /\ Len(tx_buffer) >= min_duration_samples
           THEN Append(flushed, [buffer |-> tx_buffer, final |-> TRUE])
           ELSE flushed
      ]_vars

\* the stream ended in Active and the accumulator was emitted although its
\* length minus the padding is below the minimum
C10_Witness ==
    /\ pc = "done"
    /\ in_transmission
    /\ Len(flushed) = 1
    /\ flushed[1].final
    /\ flushed[1].buffer = tx_buffer
    /\ Len(tx_buffer) - padding_samples < min_duration_samples

\* the scenario's source has delivered all of its chunks
ScenarioPlayed == scenario /\ Len(chunk_log) = 100

GapChunks == Max(1, (gap_samples + chunk_size - 1) \div chunk_size)

LastN(s, n) == SubSeq(s, Len(s) - n + 1, Len(s))

\* C12: the pre-roll buffer is never longer than padding_samples, in any
\* state and after any sequence of chunks; a chunk processed in Idle is
\* appended and the oldest samples dropped, so that exactly the last
\* min(previous length + chunk size, padding_samples) samples remain.
C12_PreRollBound ==
    /\ [](Len(pre_buffer) <= padding_samples)
    /\ [][(IsChunkStep /\ ~in_transmission) =>
             LET all == pre_buffer \o [k \in 1..chunk_size |->
                                          Len(chunk_log) * chunk_size + k]
             IN pre_buffer' =
                   LastN(all, Min(Len(pre_buffer) + chunk_size,
                                  padding_samples))
         ]_vars

\* two chunks of 2 samples through a pre-roll of 3: the oldest was dropped
C12_Witness ==
    /\ pc = "loop"
    /\ padding_samples = 3
    /\ chunk_size = 2
    /\ Len(chunk_log) = 2
    /\ ~chunk_log[2].active
    /\ pre_buffer = <<2, 3, 4>>

\* every sample of every flush event is one of the first n samples read
EmittedWithin(events, n) ==
    \A f \in 1..Len(events) :
        \A k \in 1..Len(events[f].buffer) : events[f].buffer[k] <= n

\* C17: a read that ends before a full chunk arrived is the closed signal,
\* not an error: process_stream leaves the loop, runs the end-of-stream
\* flush and returns success, and the samples of the incomplete chunk are
\* neither processed nor emitted. Any other read error makes process_stream
\* return the error, with no flush of the open transmission.
C17_SourceClosed ==
    [][pc = "loop" =>
         /\ last_read'.kind = "UnexpectedEof" =>
               /\ pc' = "done"
               /\ last_read'.received < chunk_size
               /\ chunk_log' = chunk_log
               /\ tx_buffer' = tx_buffer
               /\ pre_buffer' = pre_buffer
               /\ noise_floor_db' = noise_floor_db
               /\ flushed' =
                     IF in_transmission
                        /\ Len(tx_buffer) >= min_duration_samples
                     THEN Append(flushed,
                                 [buffer |-> tx_buffer, final |-> TRUE])
                     ELSE flushed
               /\ EmittedWithin(flushed', Len(chunk_log) * chunk_size)
         /\ last_read'.kind \notin {"none", "Ok", "UnexpectedEof"} =>
               /\ pc' = "error"
               /\ chunk_log' = chunk_log
               /\ flushed' = flushed
               /\ slice_counter' = slice_counter
         /\ pc' = "done" => last_read'.kind = "UnexpectedEof"
         /\ pc' = "error"
               => last_read'.kind \notin {"none", "Ok", "UnexpectedEof"}
      ]_vars

\* the source closed with one sample of a chunk of two received, during a
\* transmission: the accumulator was flushed without that sample
C17_Witness ==
    /\ pc = "done"
    /\ last_read = [kind |-> "UnexpectedEof", received |-> 1]
    /\ chunk_size = 2
    /\ in_transmission
    /\ Len(chunk_log) = 3
    /\ Len(flushed) = 1
    /\ flushed[1].final
    /\ flushed[1].buffer = tx_buffer

\* a chunk step that took the detector from Idle to Active
IsTriggerStep == IsChunkStep /\ ~in_transmission /\ in_transmission'

\* the samples of the chunk a chunk step processed
ArrivedChunk == [k \in 1..chunk_size |-> Len(chunk_log) * chunk_size + k]

\* C21: immediately after the chunk that takes the detector from Idle to
\* Active the silence counter is 0 and the accumulator is the entire
\* pre-roll buffer followed by the whole chunk, with nothing of an earlier
\* transmission in front of it.
C21_AccumulatorSeeding ==
    [][IsTriggerStep =>
          /\ silence_counter' = 0
          /\ tx_buffer' = pre_buffer' \o ArrivedChunk
          /\ Len(tx_buffer') = Len(pre_buffer') + chunk_size
      ]_vars

\* a second transmission starts after the first one was closed by a gap of
\* two silent chunks: the counter is back at 0 and the accumulator holds the
\* pre-roll and the chunk only
C21_Witness ==
    /\ pc = "loop"
    /\ chunk_size = 2
    /\ gap_samples = 3
    /\ padding_samples = 3
    /\ Len(chunk_log) = 4
    /\ ~chunk_log[4].active
    /\ in_transmission
    /\ Len(flushed) = 1
    /\ silence_counter = 0
    /\ pre_buffer = <<2, 7, 8>>
    /\ tx_buffer = <<2, 7, 8, 7, 8>>

\* C22: in every reachable state a chunk whose power is the negative
\* infinity sentinel is below any threshold: processed in Idle it does not
\* start a transmission, processed in Active it adds its samples to the
\* silence counter, and the transmission closes once the counter reaches
\* gap_samples.
C22_NegInfBelowAnyThreshold ==
    [][(IsChunkStep /\ ArrivedPower = NegInf) =>
          /\ ~in_transmission => ~in_transmission'
          /\ in_transmission =>
                /\ silence_counter' = silence_counter + chunk_size
                /\ silence_counter' >= gap_samples => ~in_transmission'
      ]_vars

\* the samples of a buffer are consecutive samples of the input, in order
IsContiguous(buffer) ==
    \A k \in 1..(Len(buffer) - 1) : buffer[k + 1] = buffer[k] + 1

\* C25: every buffer the streaming detector flushes, on a close or at the
\* end of the stream, is a contiguous in-order run of the input samples: no
\* sample twice, none missing between its first and its last sample, the
\* pre-roll being the samples just before the triggering chunk.
C25_FlushedContiguous ==
    \A f \in 1..Len(flushed) : IsContiguous(flushed[f].buffer)

====
